---- MODULE Spec2Model ----
(***************************************************************************)
(* Collection manifest validation of galaxy/importer/models.py:            *)
(* BaseCollectionInfo, GalaxyCollectionInfo and                            *)
(* CollectionArtifactManifest.parse.                                       *)
(*                                                                         *)
(* A Python string is a sequence of one-character strings, so that         *)
(* str.split('.'), the regular expressions and the version parser are      *)
(* computed rather than assumed.  A Python value is a record               *)
(*   [t |-> type tag, s |-> characters, items |-> list elements]           *)
(*    ents |-> dict entries in insertion order];                           *)
(* a list element, a dict key and a dict value are records                 *)
(*   [t |-> type tag, s |-> characters].                                   *)
(***************************************************************************)
EXTENDS Integers, Sequences, FiniteSets, TLC

VARIABLES
    entry,      \* which constructor the caller invoked
    doc,        \* shape of the serialized document handed to parse
    args,       \* keyword arguments supplied by the caller
    self,       \* attribute values of the object under construction
    registry,   \* rows of Namespace / Collection / CollectionVersion
    pc,         \* position inside the constructor
    result,     \* outcome: still running, returned, or the exception raised
    ran,        \* names of the validation steps that have run, in order
    lookups     \* registry queries issued by _check_dependencies, in order

vars == <<entry, doc, args, self, registry, pc, result, ran, lookups>>

----------------------------------------------------------------------------
(* Bounds of the explored input space *)

MaxDeviations == 2     \* fields that differ from the valid baseline manifest
MaxListLen == 2        \* length of the license lists drawn as input
MaxDeps == 2           \* entries of the dependencies mappings drawn as input

----------------------------------------------------------------------------
(* Python values *)

Digits == {"0", "1", "2"}
Letters == {"a", "b", "c", "d", "m", "g", "u", "x", "t"}

Str(chars) == [t |-> "str", s |-> chars, items |-> <<>>, ents |-> <<>>]
NoneV == [t |-> "none", s |-> <<>>, items |-> <<>>, ents |-> <<>>]
Absent == [t |-> "absent", s |-> <<>>, items |-> <<>>, ents |-> <<>>]
IntV == [t |-> "int", s |-> <<>>, items |-> <<>>, ents |-> <<>>]
List(elems) == [t |-> "list", s |-> <<>>, items |-> elems, ents |-> <<>>]
Dict(entries) == [t |-> "dict", s |-> <<>>, items |-> <<>>, ents |-> entries]

EStr(chars) == [t |-> "str", s |-> chars]
EInt == [t |-> "int", s |-> <<>>]
Entry(key, value) == [k |-> key, v |-> value]

\* bool(value): None, '', [] and {} are false; the int drawn as input is
\* non-zero
Truthy(v) ==
    CASE v.t = "none" -> FALSE
      [] v.t = "str" -> v.s # <<>>
      [] v.t = "list" -> v.items # <<>>
      [] v.t = "dict" -> v.ents # <<>>
      [] OTHER -> TRUE

IsStr(v) == v.t = "str"

\* str.split(sep): the pieces of chars between occurrences of sep
RECURSIVE SplitAcc(_, _, _)
SplitAcc(chars, sep, cur) ==
    IF chars = <<>> THEN <<cur>>
    ELSE IF Head(chars) = sep
         THEN <<cur>> \o SplitAcc(Tail(chars), sep, <<>>)
         ELSE SplitAcc(Tail(chars), sep, Append(cur, Head(chars)))

Split(chars, sep) == SplitAcc(chars, sep, <<>>)

AllIn(chars, alphabet) == \A i \in 1..Len(chars) : chars[i] \in alphabet

----------------------------------------------------------------------------
(* Outcomes of a constructor call *)

Running == [st |-> "running", exc |-> "", prefixed |-> FALSE, rule |-> "", field |-> ""]
Returned == [st |-> "returned", exc |-> "", prefixed |-> FALSE, rule |-> "", field |-> ""]

\* BaseCollectionInfo.value_error: ValueError("Invalid collection metadata. ...")
value_error(rule, field) ==
    [st |-> "raised", exc |-> "ValueError", prefixed |-> TRUE, rule |-> rule, field |-> field]

\* any other exception leaving the constructor: raised by the interpreter or by
\* a library, its message without the "Invalid collection metadata." prefix
Raised(exc, where) ==
    [st |-> "raised", exc |-> exc, prefixed |-> FALSE, rule |-> where, field |-> ""]

Pass == Running

\* how an iteration of a loop ends when it raises nothing
EarlyReturn == [st |-> "return", exc |-> "", prefixed |-> FALSE, rule |-> "", field |-> ""]
NextIteration == [st |-> "continue", exc |-> "", prefixed |-> FALSE, rule |-> "", field |-> ""]

IsValidationFailure(r) == r.st = "raised" /\ r.exc = "ValueError" /\ r.prefixed

\* the first outcome of a sequence of checks that is not a pass
RECURSIVE FirstFailure(_)
FirstFailure(outcomes) ==
    IF outcomes = <<>> THEN Pass
    ELSE IF Head(outcomes) # Pass THEN Head(outcomes)
         ELSE FirstFailure(Tail(outcomes))

----------------------------------------------------------------------------
(* galaxy.constants and galaxy.importer.utils.spdx_licenses *)

MAX_TAGS_COUNT == 2

\* re.match(constants.NAME_REGEXP, chars): letters, digits and underscore
NAME_REGEXP(chars) == chars # <<>> /\ AllIn(chars, Letters \cup Digits \cup {"_"})

\* re.match(constants.TAG_REGEXP, chars): letters and digits
TAG_REGEXP(chars) == chars # <<>> /\ AllIn(chars, Letters \cup Digits)

\* spdx_licenses.get_spdx(): identifier -> {deprecated: bool}
get_spdx == (<<"m">> :> [deprecated |-> FALSE]) @@ (<<"g">> :> [deprecated |-> TRUE])

----------------------------------------------------------------------------
(* The semantic_version library, as far as models.py calls it *)

DigitVal(ch) == CASE ch = "0" -> 0 [] ch = "1" -> 1 [] ch = "2" -> 2 [] OTHER -> 0

RECURSIVE ToNat(_, _)
ToNat(chars, acc) ==
    IF chars = <<>> THEN acc ELSE ToNat(Tail(chars), 10 * acc + DigitVal(Head(chars)))

NumericGroup(g) == g # <<>> /\ AllIn(g, Digits) /\ (Len(g) > 1 => g[1] # "0")

\* Version.parse: dot-separated numeric components without leading zeros,
\* exactly three of them unless partial
ParseVersion(chars, partial) ==
    LET groups == Split(chars, ".")
        wellFormed == /\ \A i \in 1..Len(groups) : NumericGroup(groups[i])
                      /\ IF partial THEN Len(groups) \in 1..3 ELSE Len(groups) = 3
    IN  IF wellFormed
        THEN [ok |-> TRUE, parts |-> [i \in 1..Len(groups) |-> ToNat(groups[i], 0)]]
        ELSE [ok |-> FALSE, parts |-> <<>>]

\* semantic_version.validate(value): False for a string that is no version;
\* the regular expression match raises TypeError on a value that is no string
validate(value) ==
    IF ~Truthy(value) THEN "False"
    ELSE IF ~IsStr(value) THEN "TypeError"
    ELSE IF ParseVersion(value.s, FALSE).ok THEN "True" ELSE "False"

\* semantic_version.Spec(chars): '*', or an optional operator and a partial version
ParseSpec(chars) ==
    LET n == Len(chars)
        op == IF n >= 2 /\ chars[1] = ">" /\ chars[2] = "=" THEN ">="
              ELSE IF n >= 2 /\ chars[1] = "=" /\ chars[2] = "=" THEN "=="
              ELSE IF n >= 1 /\ chars[1] = "~" THEN "~"
              ELSE ""
        skip == IF op \in {">=", "=="} THEN 2 ELSE IF op = "~" THEN 1 ELSE 0
        rest == SubSeq(chars, skip + 1, n)
        ver == ParseVersion(rest, TRUE)
    IN  IF chars = <<"*">> THEN [ok |-> TRUE, kind |-> "*", parts |-> <<>>]
        ELSE IF ver.ok THEN [ok |-> TRUE, kind |-> IF op = "" THEN "==" ELSE op,
                             parts |-> ver.parts]
        ELSE [ok |-> FALSE, kind |-> "", parts |-> <<>>]

\* lexicographic comparison of the first n components: -1, 0 or 1
RECURSIVE Cmp(_, _, _)
Cmp(a, b, n) ==
    IF n = 0 THEN 0
    ELSE IF Head(a) < Head(b) THEN -1
    ELSE IF Head(a) > Head(b) THEN 1
    ELSE Cmp(Tail(a), Tail(b), n - 1)

\* Spec.match(version): '~' with a spec that has no minor component raises
\* TypeError (next_minor adds 1 to None)
match(spec, parts) ==
    LET n == Len(spec.parts) IN
    CASE spec.kind = "*" -> "True"
      [] spec.kind = ">=" -> IF Cmp(parts, spec.parts, n) >= 0 THEN "True" ELSE "False"
      [] spec.kind = "==" -> IF Cmp(parts, spec.parts, n) = 0 THEN "True" ELSE "False"
      [] spec.kind = "~" ->
            IF n < 2 THEN "TypeError"
            ELSE IF /\ Cmp(parts, spec.parts, n) >= 0
                    /\ Cmp(parts, <<spec.parts[1], spec.parts[2] + 1, 0>>, 3) < 0
                 THEN "True" ELSE "False"
      [] OTHER -> "False"

----------------------------------------------------------------------------
(* BaseCollectionInfo: the validators *)

_check_required(attribute, value) ==
    IF ~Truthy(value) THEN value_error("RequiredFieldMissing", attribute) ELSE Pass

_check_version_format(attribute, value) ==
    LET valid == validate(value) IN
    IF valid = "TypeError" THEN Raised("TypeError", "semantic_version.validate")
    ELSE IF valid = "False" THEN value_error("NotASemanticVersion", attribute)
    ELSE Pass

_check_list_of_str(attribute, value) ==
    IF value.t # "list" THEN value_error("WrongFieldType", attribute)
    ELSE IF \E i \in 1..Len(value.items) : value.items[i].t # "str"
         THEN value_error("WrongFieldType", attribute)
    ELSE Pass

\* mutant: a deprecated identifier passes
_is_valid_license_id_IgnoringDeprecated(license_id, valid_license_ids) ==
    IF license_id.t = "none" THEN FALSE
    ELSE license_id.s \in DOMAIN valid_license_ids

_is_valid_license_id(license_id, valid_license_ids) ==
    IF license_id.t = "none" THEN FALSE
    ELSE IF license_id.s \notin DOMAIN valid_license_ids THEN FALSE
    ELSE IF valid_license_ids[license_id.s].deprecated THEN FALSE
    ELSE TRUE

_check_licenses(attribute, value) ==
    LET invalid_licenses ==
            {i \in 1..Len(value.items) : ~_is_valid_license_id(value.items[i], get_spdx)}
    IN  IF invalid_licenses # {} THEN value_error("InvalidLicenseIdentifier", attribute)
        ELSE Pass

_check_dependencies_type(attribute, value) ==
    IF value.t # "dict" THEN value_error("WrongFieldType", attribute)
    ELSE IF \E i \in 1..Len(value.ents) :
                value.ents[i].k.t # "str" \/ value.ents[i].v.t # "str"
         THEN value_error("WrongFieldType", attribute)
    ELSE Pass

_check_tags(attribute, value) ==
    IF \E i \in 1..Len(value.items) : ~TAG_REGEXP(value.items[i].s)
    THEN value_error("InvalidFormat", "tag")
    ELSE Pass

\* re.match raises TypeError when value is no string
_check_name(attribute, value) ==
    IF ~IsStr(value) THEN Raised("TypeError", "re.match")
    ELSE IF ~NAME_REGEXP(value.s) THEN value_error("InvalidFormat", attribute)
    ELSE Pass

\* attr.validators.optional(attr.validators.instance_of(str))
optional_instance_of_str(attribute, value) ==
    IF value.t \notin {"none", "str"} THEN Raised("TypeError", "instance_of")
    ELSE Pass

_check_license_or_license_file(license_ids, license_file) ==
    IF Truthy(license_ids) \/ Truthy(license_file) THEN Pass
    ELSE value_error("LicenseOrLicenseFileRequired", "license")

\* the validators of each attribute, in the order the decorators attach them
Validators(attribute, value) ==
    CASE attribute \in {"namespace", "name"} ->
            FirstFailure(<<_check_required(attribute, value), _check_name(attribute, value)>>)
      [] attribute = "version" ->
            FirstFailure(<<_check_required(attribute, value),
                           _check_version_format(attribute, value)>>)
      [] attribute = "license" ->
            LET first == _check_list_of_str(attribute, value) IN
            IF first # Pass THEN first ELSE _check_licenses(attribute, value)
      [] attribute = "authors" -> _check_list_of_str(attribute, value)
      [] attribute = "tags" ->
            LET first == _check_list_of_str(attribute, value) IN
            IF first # Pass THEN first ELSE _check_tags(attribute, value)
      [] attribute \in {"license_file", "readme"} ->
            optional_instance_of_str(attribute, value)
      [] attribute = "dependencies" -> _check_dependencies_type(attribute, value)
      [] OTHER -> Pass

\* attributes in declaration order; attrs runs their validators in this order
Attributes ==
    <<"namespace", "name", "version", "license", "description", "repository",
      "documentation", "homepage", "issues", "authors", "tags", "license_file",
      "readme", "dependencies">>

----------------------------------------------------------------------------
(* GalaxyCollectionInfo: the checks of __attrs_post_init__ *)

Galaxy_check_required(obj, name) ==
    IF ~Truthy(obj[name]) THEN value_error("RequiredFieldMissing", name) ELSE Pass

_check_non_null_str(obj, name) ==
    IF obj[name].t # "none" /\ ~IsStr(obj[name]) THEN value_error("WrongFieldType", name)
    ELSE Pass

\* the loop over the published versions of a collection (lines 278-284):
\* "match" when the function returns, "exhausted" when the loop ends, or the
\* exception raised by semantic_version.Version(v)
RECURSIVE MatchVersions(_, _)
MatchVersions(spec, versions) ==
    IF versions = <<>> THEN "exhausted"
    ELSE LET v == ParseVersion(Head(versions), FALSE) IN
         IF ~v.ok THEN "ValueError"
         ELSE IF match(spec, v.parts) = "True" THEN "match"
         ELSE MatchVersions(spec, Tail(versions))   \* False, or TypeError: pass

\* models.CollectionVersion.objects.filter(collection=col), as version strings
VersionsOf(reg, ns_name, name) ==
    LET rows == reg.CollectionVersion
        RECURSIVE Pick(_)
        Pick(i) == IF i > Len(rows) THEN <<>>
                   ELSE IF rows[i].namespace = ns_name /\ rows[i].name = name
                        THEN <<rows[i].version>> \o Pick(i + 1)
                        ELSE Pick(i + 1)
    IN  Pick(1)

Query(i, model) == [entry |-> i, model |-> model]

\* mutant: the package is resolved before the self-dependency check
DependencyEntry_LookupFirst(obj, reg, i) ==
    LET dep_col == obj.dependencies.ents[i].k.s
        ver_spec == obj.dependencies.ents[i].v.s
        parts == Split(dep_col, ".")
        ns_name == parts[1]
        name == parts[2]
        spec == ParseSpec(ver_spec)
        q1 == <<Query(i, "Namespace")>>
        q2 == q1 \o <<Query(i, "Collection")>>
        q3 == q2 \o <<Query(i, "CollectionVersion")>>
    IN  IF Len(parts) # 2
        THEN [out |-> Raised("ValueError", "unpack"), log |-> <<>>]
        ELSE IF ns_name \notin reg.Namespace
        THEN [out |-> value_error("UnknownDependencyNamespace", "dependencies"), log |-> q1]
        ELSE IF [namespace |-> ns_name, name |-> name] \notin reg.Collection
        THEN [out |-> value_error("UnknownDependencyPackage", "dependencies"), log |-> q2]
        ELSE IF ns_name = obj.namespace.s /\ name = obj.name.s
        THEN [out |-> value_error("SelfDependency", "dependencies"), log |-> q2]
        ELSE IF ~spec.ok
        THEN [out |-> value_error("InvalidVersionRange", "dependencies"), log |-> q2]
        ELSE LET found == MatchVersions(spec, VersionsOf(reg, ns_name, name)) IN
             CASE found = "match" -> [out |-> EarlyReturn, log |-> q3]
               [] found = "ValueError" ->
                    [out |-> Raised("ValueError", "semantic_version.Version"), log |-> q3]
               [] OTHER ->
                    [out |-> value_error("UnsatisfiableDependency", "dependencies"),
                     log |-> q3]

\* one iteration of the loop of _check_dependencies, for entry number i:
\* out is EarlyReturn when the function returns (line 281), else the exception
DependencyEntry(obj, reg, i) ==
    LET dep_col == obj.dependencies.ents[i].k.s
        ver_spec == obj.dependencies.ents[i].v.s
        parts == Split(dep_col, ".")
        ns_name == parts[1]
        name == parts[2]
        spec == ParseSpec(ver_spec)
        q1 == <<Query(i, "Namespace")>>
        q2 == q1 \o <<Query(i, "Collection")>>
        q3 == q2 \o <<Query(i, "CollectionVersion")>>
    IN  IF Len(parts) # 2
        THEN [out |-> Raised("ValueError", "unpack"), log |-> <<>>]
        ELSE IF ns_name = obj.namespace.s /\ name = obj.name.s
        THEN [out |-> value_error("SelfDependency", "dependencies"), log |-> <<>>]
        ELSE IF ns_name \notin reg.Namespace
        THEN [out |-> value_error("UnknownDependencyNamespace", "dependencies"), log |-> q1]
        ELSE IF [namespace |-> ns_name, name |-> name] \notin reg.Collection
        THEN [out |-> value_error("UnknownDependencyPackage", "dependencies"), log |-> q2]
        ELSE IF ~spec.ok
        THEN [out |-> value_error("InvalidVersionRange", "dependencies"), log |-> q2]
        ELSE LET found == MatchVersions(spec, VersionsOf(reg, ns_name, name)) IN
             CASE found = "match" -> [out |-> EarlyReturn, log |-> q3]
               [] found = "ValueError" ->
                    [out |-> Raised("ValueError", "semantic_version.Version"), log |-> q3]
               [] OTHER ->
                    [out |-> value_error("UnsatisfiableDependency", "dependencies"),
                     log |-> q3]

\* for dep_col, ver_spec in self.dependencies.items(): every path through the
\* body leaves the function, by return or by an exception
RECURSIVE DependencyLoop(_, _, _)
DependencyLoop(obj, reg, i) ==
    IF i > Len(obj.dependencies.ents) THEN [out |-> Pass, log |-> <<>>]
    ELSE LET this == DependencyEntry(obj, reg, i) IN
         IF this.out = EarlyReturn THEN [out |-> Pass, log |-> this.log]
         ELSE IF this.out = NextIteration
         THEN LET rest == DependencyLoop(obj, reg, i + 1) IN
              [out |-> rest.out, log |-> this.log \o rest.log]
         ELSE this

_check_dependencies(obj, reg) == DependencyLoop(obj, reg, 1)

\* mutant: MAX_TAGS_COUNT tags are already too many
_check_tags_count_AtLeast(obj) ==
    IF obj.tags.t # "none" /\ Len(obj.tags.items) >= MAX_TAGS_COUNT
    THEN value_error("TooManyTags", "tags")
    ELSE Pass

_check_tags_count(obj) ==
    IF obj.tags.t # "none" /\ Len(obj.tags.items) > MAX_TAGS_COUNT
    THEN value_error("TooManyTags", "tags")
    ELSE Pass

OptionalStrings == <<"description", "repository", "documentation", "homepage", "issues">>

----------------------------------------------------------------------------
(* Construction, step by step *)

FieldNames == {Attributes[i] : i \in 1..Len(Attributes)}

\* mutant: tags declared before license
ValidatedAttributes_TagsBeforeLicense ==
    <<"namespace", "name", "version", "tags", "license", "authors", "license_file",
      "readme", "dependencies">>

\* the attributes that carry validators, in declaration order
ValidatedAttributes ==
    <<"namespace", "name", "version", "license", "authors", "tags", "license_file",
      "readme", "dependencies">>

\* mutant: None is left as it is
convert_none_to_empty_dict_Identity(val) == val

convert_none_to_empty_dict(val) == IF val.t = "none" THEN Dict(<<>>) ELSE val

\* attr.ib(default=None), attr.ib(factory=list), attr.ib(factory=dict)
Default(name) ==
    CASE name \in {"license", "authors", "tags"} -> List(<<>>)
      [] name = "dependencies" -> Dict(<<>>)
      [] OTHER -> NoneV

\* the value __init__ assigns to an attribute
Assigned(name, supplied) ==
    LET given == IF supplied.t = "absent" THEN Default(name) ELSE supplied IN
    IF name = "dependencies" THEN convert_none_to_empty_dict(given) ELSE given

Unset == [name \in FieldNames |-> Absent]

\* record a step and either go on or leave with the exception
Step(outcome, steps, next) ==
    /\ ran' = ran \o steps
    /\ IF outcome = Pass
       THEN pc' = next /\ result' = result
       ELSE pc' = "done" /\ result' = outcome

\* CollectionArtifactManifest.parse, lines 324-325 and the ** of line 326
Parse ==
    /\ pc = "parse"
    /\ CASE doc = "invalid_syntax" ->
                pc' = "done" /\ result' = Raised("ValueError", "json.loads")
         [] doc = "no_collection_info" ->
                pc' = "done" /\ result' = Raised("TypeError", "**col_info")
         [] OTHER -> pc' = "init" /\ result' = result
    /\ UNCHANGED <<entry, doc, args, self, registry, ran, lookups>>

\* the generated __init__: defaults, converters, assignment
AttrsInit ==
    /\ pc = "init"
    /\ self' = [name \in FieldNames |-> Assigned(name, args[name])]
    /\ pc' = "validators"
    /\ UNCHANGED <<entry, doc, args, registry, result, ran, lookups>>

\* index of the first validated attribute whose validators raise, 0 if none
FirstInvalid(obj) ==
    LET bad == {i \in 1..Len(ValidatedAttributes) :
                    Validators(ValidatedAttributes[i], obj[ValidatedAttributes[i]]) # Pass}
    IN  IF bad = {} THEN 0 ELSE CHOOSE i \in bad : \A j \in bad : i <= j

\* the generated __init__: the validators, attribute by attribute
RunValidators ==
    /\ pc = "validators"
    /\ LET i == FirstInvalid(self) IN
       IF i = 0
       THEN Step(Pass, ValidatedAttributes, "post_init")
       ELSE Step(Validators(ValidatedAttributes[i], self[ValidatedAttributes[i]]),
                 SubSeq(ValidatedAttributes, 1, i), "post_init")
    /\ UNCHANGED <<entry, doc, args, self, registry, lookups>>

\* BaseCollectionInfo.__attrs_post_init__
BasePostInit ==
    /\ pc = "post_init"
    /\ Step(_check_license_or_license_file(self.license, self.license_file),
            <<"license_or_license_file">>,
            IF entry = "BaseCollectionInfo" THEN "return" ELSE "galaxy_required")
    /\ UNCHANGED <<entry, doc, args, self, registry, lookups>>

\* GalaxyCollectionInfo.__attrs_post_init__, lines 300-301
GalaxyRequired ==
    /\ pc = "galaxy_required"
    /\ Step(FirstFailure(<<Galaxy_check_required(self, "readme"),
                           Galaxy_check_required(self, "authors")>>),
            <<"galaxy_required">>, "dependencies")
    /\ UNCHANGED <<entry, doc, args, self, registry, lookups>>

\* GalaxyCollectionInfo.__attrs_post_init__, line 302
CheckDependencies ==
    /\ pc = "dependencies"
    /\ LET r == _check_dependencies(self, registry) IN
       /\ Step(r.out, <<"check_dependencies">>, "tags_count")
       /\ lookups' = lookups \o r.log
    /\ UNCHANGED <<entry, doc, args, self, registry>>

\* GalaxyCollectionInfo.__attrs_post_init__, line 303
CheckTagsCount ==
    /\ pc = "tags_count"
    /\ Step(_check_tags_count(self), <<"check_tags_count">>, "non_null_str")
    /\ UNCHANGED <<entry, doc, args, self, registry, lookups>>

\* GalaxyCollectionInfo.__attrs_post_init__, lines 304-311
CheckNonNullStr ==
    /\ pc = "non_null_str"
    /\ Step(FirstFailure([i \in 1..Len(OptionalStrings) |->
                              _check_non_null_str(self, OptionalStrings[i])]),
            <<"check_non_null_str">>,
            IF entry = "parse" THEN "wrap" ELSE "return")
    /\ UNCHANGED <<entry, doc, args, self, registry, lookups>>

\* the constructor returns the frozen object
Return ==
    /\ pc = "return"
    /\ pc' = "done"
    /\ result' = Returned
    /\ UNCHANGED <<entry, doc, args, self, registry, ran, lookups>>

\* CollectionArtifactManifest.parse, line 327: cls(**meta)
Wrap ==
    /\ pc = "wrap"
    /\ pc' = "done"
    /\ result' = Returned
    /\ UNCHANGED <<entry, doc, args, self, registry, ran, lookups>>

Next ==
    \/ Parse
    \/ AttrsInit
    \/ RunValidators
    \/ BasePostInit
    \/ GalaxyRequired
    \/ CheckDependencies
    \/ CheckTagsCount
    \/ CheckNonNullStr
    \/ Return
    \/ Wrap

----------------------------------------------------------------------------
(* The inputs explored *)

RECURSIVE SeqsUpTo(_, _)
SeqsUpTo(S, n) ==
    IF n = 0 THEN {<<>>}
    ELSE LET shorter == SeqsUpTo(S, n - 1) IN
         shorter \cup {Append(q, x) : q \in shorter, x \in S}

v100 == <<"1", ".", "0", ".", "0">>
v210 == <<"2", ".", "1", ".", "0">>

\* a manifest that GalaxyCollectionInfo accepts
Baseline ==
    [namespace |-> Str(<<"a">>), name |-> Str(<<"a">>), version |-> Str(v100),
     license |-> List(<<EStr(<<"m">>)>>), description |-> Absent,
     repository |-> Absent, documentation |-> Absent, homepage |-> Absent,
     issues |-> Absent, authors |-> List(<<EStr(<<"x">>)>>), tags |-> Absent,
     license_file |-> Absent, readme |-> Str(<<"t">>), dependencies |-> Absent]

\* absent, None, '', well-formed, ill-formed, a number, a list, a mapping
Scalars(good, bad) ==
    {Absent, NoneV, Str(<<>>), Str(good), Str(bad), IntV, List(<<EStr(good)>>),
     Dict(<<Entry(EStr(good), EStr(good))>>)}

\* m is a current identifier, g a deprecated one, u is not in the vocabulary
LicenseElems == {EStr(<<"m">>), EStr(<<"g">>)}
TagElems == {EStr(<<"t">>), EStr(<<"!">>)}

KeyExisting == <<"b", ".", "c">>
SpecAny == <<"*">>

\* the values a field takes, the dependencies mapping having at most one entry
Alternatives(name) ==
    CASE name \in {"namespace", "name"} -> Scalars(<<"a">>, <<"!">>)
      [] name = "version" -> Scalars(v100, <<"1", ".", "0">>)
      [] name = "license" ->
            {Absent, NoneV, Str(<<"m">>), List(<<EStr(<<"u">>)>>), List(<<EInt>>)}
                \cup {List(q) : q \in SeqsUpTo(LicenseElems, MaxListLen)}
      [] name = "authors" ->
            {Absent, NoneV, List(<<>>), List(<<EStr(<<"x">>)>>), List(<<EInt>>)}
      [] name = "tags" ->
            {Absent, NoneV, Str(<<"t">>), List(<<EInt>>)}
                \cup {List(q) : q \in SeqsUpTo(TagElems, MAX_TAGS_COUNT + 1)}
      [] name = "license_file" -> {Absent, Str(<<>>), Str(<<"m">>), IntV}
      [] name = "readme" -> {Absent, Str(<<>>), Str(<<"t">>), IntV}
      [] name = "dependencies" ->
            {Absent, NoneV, List(<<>>), Dict(<<>>),
             Dict(<<Entry(EInt, EStr(SpecAny))>>),
             Dict(<<Entry(EStr(KeyExisting), EInt)>>),
             Dict(<<Entry(EStr(KeyExisting), EStr(SpecAny))>>)}
      [] OTHER -> {Absent, Str(<<"t">>), IntV}

\* a replacement of one field by another of its values, or no replacement
NoChange == <<"", Absent>>
Changes(base) ==
    {NoChange} \cup UNION {{<<name, v>> : v \in Alternatives(name) \ {base[name]}} :
                              name \in FieldNames}

Position(change) ==
    IF change = NoChange THEN Len(Attributes) + 1
    ELSE CHOOSE i \in 1..Len(Attributes) : Attributes[i] = change[1]

\* replacements of distinct fields, in declaration order, the unused slots last
Ordered(changes) ==
    \A i \in 1..(Len(changes) - 1) :
        \/ Position(changes[i]) < Position(changes[i + 1])
        \/ changes[i + 1] = NoChange

RECURSIVE Changed(_, _)
Changed(base, changes) ==
    IF changes = <<>> THEN base
    ELSE LET c == Head(changes) IN
         Changed(IF c = NoChange THEN base ELSE [base EXCEPT ![c[1]] = c[2]], Tail(changes))

\* args is base with at most n fields replaced
Deviates(a, base, n) ==
    \E changes \in [1..n -> Changes(base)] :
        Ordered(changes) /\ a = Changed(base, changes)

\* entries of a dependencies mapping: the package itself (a.a or b.c), a
\* published package (b.c), an unpublished package of a known namespace, an
\* unknown namespace, and the four kinds of malformed key
DepEntries ==
    {Entry(EStr(<<"a", ".", "a">>), EStr(sp)) : sp \in {SpecAny, <<"x">>}}
    \cup {Entry(EStr(KeyExisting), EStr(sp)) :
            sp \in {SpecAny, <<">", "=", "2", ".", "0", ".", "0">>, <<"~", "1">>, <<"x">>}}
    \cup {Entry(EStr(<<"b", ".", "d">>), EStr(sp)) : sp \in {SpecAny, <<"x">>}}
    \cup {Entry(EStr(<<"d", ".", "c">>), EStr(sp)) : sp \in {SpecAny, <<"x">>}}
    \cup {Entry(EStr(key), EStr(SpecAny)) :
            key \in {<<"b", "c">>, <<"b", ".", "c", ".", "d">>, <<".", "c">>, <<"b", ".">>}}

\* dict entries in insertion order, the keys distinct
RECURSIVE DepSeqs(_)
DepSeqs(n) ==
    IF n = 0 THEN {<<>>}
    ELSE LET shorter == DepSeqs(n - 1) IN
         shorter \cup UNION {{Append(q, e) :
                                 e \in {d \in DepEntries : \A i \in 1..Len(q) : q[i].k # d.k}} :
                              q \in shorter}

\* the registry: namespace b with collection b.c and its published versions
Registry(versions) ==
    [Namespace |-> {<<"b">>},
     Collection |-> {[namespace |-> <<"b">>, name |-> <<"c">>]},
     CollectionVersion |->
        [i \in 1..Len(versions) |->
            [namespace |-> <<"b">>, name |-> <<"c">>, version |-> versions[i]]]]

VersionLists ==
    {<<>>, <<v100>>, <<v210>>, <<v100, v210>>, <<<<"x">>, v210>>, <<v210, <<"x">>>>,
     <<<<"x">>>>}

\* field values vary, the registry is fixed
InitFields ==
    /\ entry \in {"BaseCollectionInfo", "GalaxyCollectionInfo"}
    /\ doc = "none"
    /\ Deviates(args, Baseline, MaxDeviations)
    /\ registry = Registry(<<v100, v210>>)

\* the dependencies mapping and the registry vary
InitDependencies ==
    /\ entry = "GalaxyCollectionInfo"
    /\ doc = "none"
    /\ \E id \in {<<"a", "a">>, <<"b", "c">>}, deps \in DepSeqs(MaxDeps) :
          args = [Baseline EXCEPT !.namespace = Str(<<id[1]>>), !.name = Str(<<id[2]>>),
                                  !.dependencies = Dict(deps)]
    /\ registry \in {Registry(versions) : versions \in VersionLists}

\* a serialized document is parsed
InitParse ==
    /\ entry = "parse"
    /\ \/ doc \in {"invalid_syntax", "no_collection_info"} /\ args = Unset
       \/ doc = "well_formed" /\ Deviates(args, Baseline, MaxDeviations - 1)
    /\ registry = Registry(<<v100, v210>>)

Init ==
    /\ InitFields \/ InitDependencies \/ InitParse
    /\ self = Unset
    /\ pc = IF entry = "parse" THEN "parse" ELSE "init"
    /\ result = Running
    /\ ran = <<>>
    /\ lookups = <<>>

Spec == Init /\ [][Next]_vars

----------------------------------------------------------------------------
(* The rules of the specification, stated on the constructed object *)

Done == pc = "done"
Constructors == {"BaseCollectionInfo", "GalaxyCollectionInfo"}
LastStep == IF ran = <<>> THEN "" ELSE ran[Len(ran)]
Failed(rule) == Done /\ IsValidationFailure(result) /\ result.rule = rule

\* a dependency key that splits on '.' into exactly two non-empty parts
WellFormedKey(key) ==
    LET parts == Split(key, ".") IN
    Len(parts) = 2 /\ parts[1] # <<>> /\ parts[2] # <<>>

\* section 3 of the specification, for one dependency entry: not the package
\* itself, a package of the registry, a range some published version satisfies
EntrySatisfied(obj, reg, e) ==
    /\ WellFormedKey(e.k.s)
    /\ LET parts == Split(e.k.s, ".")
           spec == ParseSpec(e.v.s)
       IN  /\ ~(parts[1] = obj.namespace.s /\ parts[2] = obj.name.s)
           /\ [namespace |-> parts[1], name |-> parts[2]] \in reg.Collection
           /\ spec.ok
           /\ \E i \in 1..Len(reg.CollectionVersion) :
                LET row == reg.CollectionVersion[i]
                    v == ParseVersion(row.version, FALSE)
                IN  /\ row.namespace = parts[1] /\ row.name = parts[2]
                    /\ v.ok
                    /\ match(spec, v.parts) = "True"

\* C1: GalaxyCollectionInfo is constructed only if every entry of dependencies
\* is satisfied, whatever the position of the entry in the mapping
C1_EveryEntryChecked ==
    (Done /\ entry = "GalaxyCollectionInfo" /\ result = Returned)
        => \A i \in 1..Len(self.dependencies.ents) :
                EntrySatisfied(self, registry, self.dependencies.ents[i])

\* the registry without the version strings that are no semantic versions
RECURSIVE WellFormedRows(_)
WellFormedRows(rows) ==
    IF rows = <<>> THEN <<>>
    ELSE IF ParseVersion(Head(rows).version, FALSE).ok
         THEN <<Head(rows)>> \o WellFormedRows(Tail(rows))
         ELSE WellFormedRows(Tail(rows))

WithoutMalformed(reg) ==
    [reg EXCEPT !.CollectionVersion = WellFormedRows(reg.CollectionVersion)]

\* C4: a published version string that is no semantic version is skipped: the
\* dependency check ends as it would without that record in the registry
C4_MalformedVersionSkipped ==
    (LastStep = "check_dependencies")
        => (IF Done THEN result ELSE Pass)
                = _check_dependencies(self, WithoutMalformed(registry)).out

\* C5: a dependency key that is no "namespace.name" pair is rejected as
\* MalformedDependencyKey, before the self-dependency check and any lookup
C5_MalformedKeyRejected ==
    (/\ LastStep = "check_dependencies"
     /\ self.dependencies.ents # <<>>
     /\ ~WellFormedKey(self.dependencies.ents[1].k.s))
        => Failed("MalformedDependencyKey") /\ lookups = <<>>

\* C6: a constructor either returns or raises the validation failure of
\* value_error, never another exception
C6_OnlyValidationFailures ==
    (Done /\ entry \in Constructors) => (result = Returned \/ IsValidationFailure(result))

\* C8: parse of a document that is no valid syntax or lacks collection_info
\* fails with MalformedEnvelope before any field rule or lookup runs
C8_MalformedEnvelope ==
    (Done /\ entry = "parse" /\ doc \in {"invalid_syntax", "no_collection_info"})
        => Failed("MalformedEnvelope") /\ ran = <<>> /\ lookups = <<>>

Index(name) == CHOOSE i \in 1..Len(Attributes) : Attributes[i] = name
Required == {"namespace", "name", "version"}
Lists == {"license", "authors", "tags"}
HasNonStr(v) == \E i \in 1..Len(v.items) : v.items[i].t # "str"
ListOfStr(v) == v.t = "list" /\ ~HasNonStr(v)
UnknownOrDeprecated(id) == id \notin DOMAIN get_spdx \/ get_spdx[id].deprecated

\* section 3 of the specification, field by field: the object breaks a rule of
\* the field
Violates(obj, name) ==
    LET v == obj[name] IN
    CASE name \in {"namespace", "name"} -> ~Truthy(v) \/ ~IsStr(v) \/ ~NAME_REGEXP(v.s)
      [] name = "version" -> ~Truthy(v) \/ ~IsStr(v) \/ ~ParseVersion(v.s, FALSE).ok
      [] name = "license" ->
            ~ListOfStr(v) \/ \E i \in 1..Len(v.items) : UnknownOrDeprecated(v.items[i].s)
      [] name = "authors" -> ~ListOfStr(v)
      [] name = "tags" -> ~ListOfStr(v) \/ \E i \in 1..Len(v.items) : ~TAG_REGEXP(v.items[i].s)
      [] name \in {"license_file", "readme"} -> v.t \notin {"none", "str"}
      [] name = "dependencies" ->
            v.t # "dict" \/ \E i \in 1..Len(v.ents) : v.ents[i].k.t # "str" \/ v.ents[i].v.t # "str"
      [] OTHER -> FALSE

\* the stages of section 4.1, 1 to 7: the object breaks a rule of the stage
StageViolated(obj, k) ==
    CASE k = 1 -> \E f \in Required : ~Truthy(obj[f])
      [] k = 2 -> \/ \E f \in Required : Truthy(obj[f]) /\ ~IsStr(obj[f])
                  \/ \E f \in Lists : obj[f].t # "list"
                  \/ \E f \in {"license_file", "readme"} : obj[f].t \notin {"none", "str"}
                  \/ Violates(obj, "dependencies")
      [] k = 3 -> \/ \E f \in {"namespace", "name"} :
                        IsStr(obj[f]) /\ Truthy(obj[f]) /\ ~NAME_REGEXP(obj[f].s)
                  \/ /\ IsStr(obj.version) /\ Truthy(obj.version)
                     /\ ~ParseVersion(obj.version.s, FALSE).ok
      [] k = 4 -> \E f \in Lists : obj[f].t = "list" /\ HasNonStr(obj[f])
      [] k = 5 -> /\ ListOfStr(obj.tags)
                  /\ \E i \in 1..Len(obj.tags.items) : ~TAG_REGEXP(obj.tags.items[i].s)
      [] k = 6 -> /\ ListOfStr(obj.license)
                  /\ \E i \in 1..Len(obj.license.items) :
                        UnknownOrDeprecated(obj.license.items[i].s)
      [] OTHER -> ~Truthy(obj.license) /\ ~Truthy(obj.license_file)

\* the stage a validation failure belongs to
StageOf(failure, obj) ==
    CASE failure.rule = "RequiredFieldMissing" -> 1
      [] failure.rule = "WrongFieldType" ->
            IF failure.field \in Lists /\ obj[failure.field].t = "list" THEN 4 ELSE 2
      [] failure.rule = "NotASemanticVersion" -> 3
      [] failure.rule = "InvalidFormat" -> IF failure.field = "tag" THEN 5 ELSE 3
      [] failure.rule = "InvalidLicenseIdentifier" -> 6
      [] OTHER -> 7

C3_LicenseFileSatisfiesRule ==
    Failed("InvalidLicenseIdentifier") => self.license_file.t = "none"

\* C3: a license list holding an identifier that is unknown or deprecated is
\* rejected whether or not license_file is set; license_file stands in only
\* for an empty license list
C3_LicenseIdsCheckedRegardlessOfFile ==
    /\ Failed("InvalidLicenseIdentifier")
        => \E i \in 1..Len(self.license.items) : UnknownOrDeprecated(self.license.items[i].s)
    /\ (/\ Done /\ entry \in Constructors
        /\ \A f \in Required : ~Violates(self, f)
        /\ ListOfStr(self.license)
        /\ \E i \in 1..Len(self.license.items) : UnknownOrDeprecated(self.license.items[i].s))
        => result = value_error("InvalidLicenseIdentifier", "license")
    /\ (Done /\ result = Returned)
        => /\ \A i \in 1..Len(self.license.items) :
                ~UnknownOrDeprecated(self.license.items[i].s)
           /\ self.license.items # <<>> \/ Truthy(self.license_file)

\* a deprecated identifier is rejected although license_file is set
C3_Witness ==
    /\ Failed("InvalidLicenseIdentifier")
    /\ IsStr(self.license_file) /\ Truthy(self.license_file)

\* C7 as stated: the constructed manifest holds, for every field, the value
\* supplied for it
C7_FieldsEqualSupplied ==
    (Done /\ result = Returned)
        => \A f \in FieldNames : args[f].t # "absent" => self[f] = args[f]

\* C7: once assigned, every field holds the value supplied for it, except that
\* dependencies supplied as None is an empty mapping; no other None is
\* replaced, so a manifest is never constructed from None in a required field
\* or a list field
C7_OnlyDependenciesConverted ==
    /\ pc \notin {"parse", "init"}
        => \A f \in FieldNames :
              args[f].t # "absent"
                 => self[f] = IF f = "dependencies" /\ args[f].t = "none"
                              THEN Dict(<<>>) ELSE args[f]
    /\ (Done /\ result = Returned)
        => \A f \in Required \cup Lists : args[f].t # "none"

\* dependencies=None is accepted as an empty mapping
C7_Witness ==
    /\ Done /\ result = Returned
    /\ args.dependencies = NoneV /\ self.dependencies = Dict(<<>>)

\* every rule but the tag count holds of the object: the field rules, the
\* presence of license or license_file and, for GalaxyCollectionInfo, a readme,
\* authors, optional strings that are strings and a dependency check that
\* raises nothing
OtherRulesHold(obj, reg, cls) ==
    /\ \A f \in FieldNames : ~Violates(obj, f)
    /\ Truthy(obj.license) \/ Truthy(obj.license_file)
    /\ cls # "BaseCollectionInfo"
        => /\ Truthy(obj.readme) /\ Truthy(obj.authors)
           /\ _check_dependencies(obj, reg).out = Pass
           /\ \A i \in 1..Len(OptionalStrings) : obj[OptionalStrings[i]].t \in {"none", "str"}

\* C9: with every other rule satisfied, GalaxyCollectionInfo fails with
\* TooManyTags when there are more than MAX_TAGS_COUNT tags and is constructed
\* when there are MAX_TAGS_COUNT or fewer; BaseCollectionInfo is constructed
\* whatever the number of tags
C9_TagCountBoundary ==
    (Done /\ entry \in Constructors /\ OtherRulesHold(self, registry, entry))
        => IF entry = "GalaxyCollectionInfo" /\ Len(self.tags.items) > MAX_TAGS_COUNT
           THEN result = value_error("TooManyTags", "tags")
           ELSE result = Returned

\* exactly MAX_TAGS_COUNT tags are accepted by GalaxyCollectionInfo
C9_Witness ==
    /\ Done /\ entry = "GalaxyCollectionInfo" /\ result = Returned
    /\ Len(self.tags.items) = MAX_TAGS_COUNT

\* C10: for the entry the dependency check processes, the checks run in the
\* order self-reference, namespace, package, range, satisfiability; the
\* self-reference is found without a registry query
C10_EntryCheckOrder ==
    (/\ LastStep = "check_dependencies"
     /\ self.dependencies.ents # <<>>
     /\ Len(Split(self.dependencies.ents[1].k.s, ".")) = 2)
        => LET parts == Split(self.dependencies.ents[1].k.s, ".")
               own == parts[1] = self.namespace.s /\ parts[2] = self.name.s
               ns == parts[1] \in registry.Namespace
               col == [namespace |-> parts[1], name |-> parts[2]] \in registry.Collection
               range == ParseSpec(self.dependencies.ents[1].v.s).ok
           IN  /\ own => Failed("SelfDependency") /\ lookups = <<>>
               /\ (~own /\ ~ns) => Failed("UnknownDependencyNamespace")
               /\ (~own /\ ns /\ ~col) => Failed("UnknownDependencyPackage")
               /\ (~own /\ col /\ ~range) => Failed("InvalidVersionRange")
               /\ Failed("UnsatisfiableDependency") => (~own /\ col /\ range)

\* a dependency on the package itself, which the registry does not hold
C10_Witness ==
    /\ Failed("SelfDependency")
    /\ self.namespace.s \notin registry.Namespace
    /\ lookups = <<>>

====
